---- MODULE Spec2Model ----
(***************************************************************************)
(* Frequency-coverage engine of extract-sight-words.                       *)
(*                                                                         *)
(*   extract_sight_words.py : process_text, Counter, the cumulative walk   *)
(*                            get_cumulative_frequencies and the           *)
(*                            "stop at target percentage" mode             *)
(*                            get_words_up_to_percentage   (Mode A)        *)
(*   russian_analyzer.py    : get_words, get_word_frequency and the        *)
(*                            "stop at target item count" mode             *)
(*                            calculate_coverage           (Mode B)        *)
(*                                                                         *)
(* A text is modelled as the sequence of its whitespace-separated chunks.  *)
(* Python floats are modelled as IEEE 754 binary64 values: a sign, an       *)
(* exponent and a 53-bit significand kept in three limbs, every operation  *)
(* rounded to nearest, ties to even.  (cumulative_sum / total_words) * 100 *)
(* is therefore rounded twice, as in the source: (29 / 50) * 100 is        *)
(* 57.99999999999999, which is below 58.0.                                 *)
(***************************************************************************)
EXTENDS Integers, Sequences, FiniteSets, TLC

VARIABLES
    text,               \* the input text, shared by both programs
    morph,              \* RussianTextAnalyzer.morph: word -> normal form
    anPc,               \* analyzer: "init" | "freq" | "covered" | "raised"
    exclude_stopwords,  \* argument of the last get_word_frequency call
    use_lemmas,         \* argument of the last get_word_frequency call
    word_frequencies,   \* result of get_word_frequency
    target_words,       \* argument of the last calculate_coverage call
    coverage,           \* result of calculate_coverage
    swPc,               \* sight words: "init" | "counted" | "done"
    word_counts,        \* Counter(process_text(text)), insertion ordered
    target_percentage,  \* argument of get_words_up_to_percentage
    cumulative_freq,    \* dict returned by get_cumulative_frequencies
    result              \* list returned by get_words_up_to_percentage

vars == <<text, morph, anPc, exclude_stopwords, use_lemmas, word_frequencies,
          target_words, coverage, swPc, word_counts, target_percentage,
          cumulative_freq, result>>

anVars == <<anPc, exclude_stopwords, use_lemmas, word_frequencies,
            target_words, coverage>>

swVars == <<swPc, word_counts, target_percentage, cumulative_freq, result>>

(***************************************************************************)
(* Bounds and input alphabets                                              *)
(***************************************************************************)
MaxLen == 3

MaxTarget == 3

\* chunks of a text: a capitalised stopword, two plain words, a number
RawWords == {"Ee", "a", "b", "42"}

\* lowercase alphabetic words
Words == {"ee", "a", "b"}

\* n occurrences of chunk w
Repeat(w, n) == [i \in 1..n |-> w]

\* 50 words, a:29 b:20 ee:1, on which (29 / 50) * 100 is rounded below 58
LongTexts == {Repeat("a", 29) \o Repeat("b", 20) \o Repeat("Ee", 1)}

Texts == UNION {[1..n -> RawWords] : n \in 0..MaxLen} \cup LongTexts

\* self.stopwords = set(['ее'])
stopwords == {"ee"}

\* responses of the morphological provider: the identity, a plain word whose
\* normal form is the stopword, the stopword normalised to a plain word, and
\* two surface forms sharing one normal form
Providers ==
    { [w \in Words |-> w],
      [w \in Words |-> IF w = "a" THEN "ee" ELSE w],
      [w \in Words |-> IF w = "ee" THEN "a" ELSE w],
      [w \in Words |-> IF w = "b" THEN "a" ELSE w] }

(***************************************************************************)
(* Python float: IEEE 754 binary64.  A non-zero value is                   *)
(*     sign * (m2 * 2^36 + m1 * 2^18 + m0) * 2^(exp - 52)                   *)
(* with 2^16 <= m2 < 2^17 (the leading bit of the 53-bit significand) and  *)
(* 0 <= m1, m0 < 2^18; zero has sign 0.  The representation is unique, so  *)
(* float equality is equality of records.  Operands stay below 2^13, far   *)
(* from overflow, underflow and subnormals.                                *)
(***************************************************************************)
\* 2^18, the size of one limb of the significand
Limb == 262144

\* 2^16, the leading significand bit within the top limb
TopBit == Limb \div 4

Abs(n) == IF n < 0 THEN 0 - n ELSE n

Sign(n) == IF n < 0 THEN 0 - 1 ELSE IF n = 0 THEN 0 ELSE 1

\* round to nearest, ties to even: the significand n2:n1:n0 followed by a
\* guard bit and a sticky flag for the bits after it
RoundNearestEven(sign, exp, n2, n1, n0, guard, sticky) ==
    IF guard = 1 /\ (sticky \/ n0 % 2 = 1)
    THEN LET s0 == n0 + 1
             s1 == n1 + (s0 \div Limb)
             s2 == n2 + (s1 \div Limb)
         IN  IF s2 = 2 * TopBit
             THEN [sign |-> sign, exp |-> exp + 1, m2 |-> TopBit, m1 |-> 0, m0 |-> 0]
             ELSE [sign |-> sign, exp |-> exp, m2 |-> s2,
                   m1 |-> s1 % Limb, m0 |-> s0 % Limb]
    ELSE [sign |-> sign, exp |-> exp, m2 |-> n2, m1 |-> n1, m0 |-> n0]

\* scale a / d by powers of two until d <= a < 2 * d; e counts the scaling
RECURSIVE Normalise(_, _, _)
Normalise(a, d, e) ==
    IF a >= 2 * d THEN Normalise(a, 2 * d, e + 1)
    ELSE IF a < d THEN Normalise(2 * a, d, e - 1)
    ELSE <<a, d, e>>

\* n / d for integers n and d > 0: true division, correctly rounded
Frac(n, d) ==
    IF n = 0 THEN [sign |-> 0, exp |-> 0, m2 |-> 0, m1 |-> 0, m0 |-> 0]
    ELSE LET nrm == Normalise(Abs(n), d, 0)
             a   == nrm[1]
             dd  == nrm[2]
             t2  == a * TopBit
             t1  == (t2 % dd) * Limb
             t0  == (t1 % dd) * Limb
             tg  == (t0 % dd) * 2
         IN  RoundNearestEven(Sign(n), nrm[3], t2 \div dd, t1 \div dd, t0 \div dd,
                              tg \div dd, tg % dd # 0)

\* x * 100: the exact product of the significand by 100, then one rounding
Times100(x) ==
    IF x.sign = 0 THEN x
    ELSE LET p0 == x.m0 * 100
             p1 == x.m1 * 100 + (p0 \div Limb)
             p2 == x.m2 * 100 + (p1 \div Limb)
             q0 == p0 % Limb
             q1 == p1 % Limb
             \* the product has 60 bits when p2 >= 2^23, else 59
             sh == IF p2 >= 128 * TopBit THEN 128 ELSE 64
             up == Limb \div sh
             rm == q0 % sh
         IN  RoundNearestEven(x.sign, x.exp + (IF sh = 128 THEN 7 ELSE 6),
                              p2 \div sh,
                              (p2 % sh) * up + (q1 \div sh),
                              (q1 % sh) * up + (q0 \div sh),
                              rm \div (sh \div 2),
                              rm % (sh \div 2) # 0)

\* |x| < |y| for non-zero x and y
MagLess(x, y) ==
    \/ x.exp < y.exp
    \/ /\ x.exp = y.exp
       /\ \/ x.m2 < y.m2
          \/ x.m2 = y.m2 /\ x.m1 < y.m1
          \/ x.m2 = y.m2 /\ x.m1 = y.m1 /\ x.m0 < y.m0

\* x < y
Less(x, y) ==
    IF x.sign # y.sign THEN x.sign < y.sign
    ELSE IF x.sign = 0 THEN FALSE
    ELSE IF x.sign = 1 THEN MagLess(x, y)
    ELSE MagLess(y, x)

\* x >= y
Geq(x, y) == ~Less(x, y)

Zero == Frac(0, 1)

One == Frac(1, 1)

Hundred == Frac(100, 1)

(***************************************************************************)
(* Tokenisation                                                            *)
(***************************************************************************)
\* str.lower()
lower(w) == IF w = "Ee" THEN "ee" ELSE w

\* any(c.isalpha() for c in word)
has_alpha(w) == w # "42"

\* extract_sight_words.process_text: lowercase, then every \b\w+\b run
process_text(t) == [i \in 1..Len(t) |-> lower(t[i])]

\* RussianTextAnalyzer.get_words: clean_text, then the chunks with a letter
get_words(t) == SelectSeq([i \in 1..Len(t) |-> lower(t[i])], has_alpha)

\* RussianTextAnalyzer.get_lemma
get_lemma(w) == morph[w]

(***************************************************************************)
(* collections.Counter: <<key, count>> pairs in first-insertion order      *)
(***************************************************************************)
\* positions at which a key occurs for the first time
FirstPositions(words) ==
    {i \in 1..Len(words) : \A j \in 1..(i - 1) : words[j] # words[i]}

\* the k-th key inserted
KthKey(words, k) ==
    LET firsts == FirstPositions(words)
        i == CHOOSE x \in firsts : Cardinality({y \in firsts : y < x}) = k - 1
    IN  words[i]

\* every key once, whatever its number of occurrences
CounterOnce(words) ==
    [k \in 1..Cardinality(FirstPositions(words)) |-> <<KthKey(words, k), 1>>]

\* Counter(words): each key, in insertion order, with its occurrences
Counter(words) ==
    [k \in 1..Cardinality(FirstPositions(words)) |->
        <<KthKey(words, k),
          Cardinality({j \in 1..Len(words) : words[j] = KthKey(words, k)})>>]

\* word_counts[word]
CountOf(c, w) ==
    IF \E i \in 1..Len(c) : c[i][1] = w
    THEN LET i == CHOOSE j \in 1..Len(c) : c[j][1] = w IN c[i][2]
    ELSE 0

\* sum(count for _, count in items)
RECURSIVE SumCounts(_)
SumCounts(items) ==
    IF items = <<>> THEN 0 ELSE Head(items)[2] + SumCounts(Tail(items))

(***************************************************************************)
(* sorted(items, key=count, reverse=True): a stable sort, so equal counts  *)
(* keep the order of the input, which is the Counter's insertion order     *)
(***************************************************************************)
InsertTiesFirst(s, e) ==
    LET k == Cardinality({i \in 1..Len(s) : s[i][2] > e[2]})
    IN  SubSeq(s, 1, k) \o <<e>> \o SubSeq(s, k + 1, Len(s))

InsertDesc(s, e) ==
    LET k == Cardinality({i \in 1..Len(s) : s[i][2] >= e[2]})
    IN  SubSeq(s, 1, k) \o <<e>> \o SubSeq(s, k + 1, Len(s))

RECURSIVE sorted_by_count_desc(_)
sorted_by_count_desc(items) ==
    IF items = <<>> THEN <<>>
    ELSE InsertDesc(sorted_by_count_desc(SubSeq(items, 1, Len(items) - 1)),
                    items[Len(items)])

\* Counter.most_common() with no argument
most_common(c) == sorted_by_count_desc(c)

(***************************************************************************)
(* russian_analyzer.py                                                     *)
(***************************************************************************)
not_stopword(w) == w \notin stopwords

\* the filter and the lemmatisation in the opposite order
get_word_frequency_lemma_first(t, ex, ul) ==
    LET words0 == get_words(t)
        words1 == IF ul THEN [i \in 1..Len(words0) |-> get_lemma(words0[i])]
                  ELSE words0
        words2 == IF ex THEN SelectSeq(words1, not_stopword) ELSE words1
    IN  most_common(Counter(words2))

\* RussianTextAnalyzer.get_word_frequency
get_word_frequency(t, ex, ul) ==
    LET words0 == get_words(t)
        words1 == IF ex THEN SelectSeq(words0, not_stopword) ELSE words0
        words2 == IF ul THEN [i \in 1..Len(words1) |-> get_lemma(words1[i])]
                  ELSE words1
    IN  most_common(Counter(words2))

Min(a, b) == IF a <= b THEN a ELSE b

Max(a, b) == IF a >= b THEN a ELSE b

PySliceToOneMore(s, n) ==
    IF n >= 0 THEN SubSeq(s, 1, Min(n + 1, Len(s)))
    ELSE SubSeq(s, 1, Max(Len(s) + n + 1, 0))

\* s[:n], with Python's meaning of a negative n
PySliceTo(s, n) ==
    IF n >= 0 THEN SubSeq(s, 1, Min(n, Len(s)))
    ELSE SubSeq(s, 1, Max(Len(s) + n, 0))

\* the dict calculate_coverage returns; evaluated only when total_words > 0
calculate_coverage(wf, tw) ==
    LET total_words      == SumCounts(wf)
        top_words        == PySliceTo(wf, tw)
        cumulative_count == SumCounts(top_words)
    IN  [ target_words           |-> tw,
          coverage_achieved      |-> Frac(cumulative_count, total_words),
          total_unique_words     |-> Len(wf),
          total_word_occurrences |-> total_words,
          cumulative_frequencies |->
              [i \in 1..Max(Min(tw, Len(wf)), 0) |->
                  <<i, Frac(SumCounts(SubSeq(wf, 1, i)), total_words)>>] ]

NoCoverage ==
    [ target_words |-> 0, coverage_achieved |-> Zero, total_unique_words |-> 0,
      total_word_occurrences |-> 0, cumulative_frequencies |-> <<>> ]

(***************************************************************************)
(* extract_sight_words.py                                                  *)
(***************************************************************************)
get_cumulative_frequencies_per_word(wc, total_words) ==
    LET sorted_words == sorted_by_count_desc(wc)
    IN  [i \in 1..Len(sorted_words) |->
            <<sorted_words[i][1],
              Times100(Frac(sorted_words[i][2], total_words))>>]

\* the dict, in insertion order, as <<word, cumulative percentage>> pairs
get_cumulative_frequencies(wc, total_words) ==
    LET sorted_words == sorted_by_count_desc(wc)
    IN  [i \in 1..Len(sorted_words) |->
            <<sorted_words[i][1],
              Times100(Frac(SumCounts(SubSeq(sorted_words, 1, i)), total_words))>>]

RECURSIVE WalkStrict(_, _, _, _)
WalkStrict(cf, wc, target, i) ==
    IF i > Len(cf) THEN <<>>
    ELSE LET e == <<cf[i][1], CountOf(wc, cf[i][1]), cf[i][2]>>
         IN  IF ~Geq(target, cf[i][2]) THEN <<e>>
             ELSE <<e>> \o WalkStrict(cf, wc, target, i + 1)

\* the loop of get_words_up_to_percentage from item i on: append, then break
\* once the cumulative percentage has reached the target
RECURSIVE Walk(_, _, _, _)
Walk(cf, wc, target, i) ==
    IF i > Len(cf) THEN <<>>
    ELSE LET e == <<cf[i][1], CountOf(wc, cf[i][1]), cf[i][2]>>
         IN  IF Geq(cf[i][2], target) THEN <<e>>
             ELSE <<e>> \o Walk(cf, wc, target, i + 1)

get_words_up_to_percentage(wc, target) ==
    LET total_words == SumCounts(wc)
        cf          == get_cumulative_frequencies(wc, total_words)
    IN  Walk(cf, wc, target, 1)

(***************************************************************************)
(* Inputs of the two entry points                                          *)
(***************************************************************************)
TargetCounts == (0 - 2)..MaxTarget

TargetPercentages ==
    {Frac(0 - 10, 1), Zero, Frac(50, 1), Frac(58, 1), Frac(75, 1), Hundred,
     Frac(150, 1)}

\* the figure Mode B reported, as such and on the 0-100 scale
CrossTargets ==
    IF anPc = "covered"
    THEN {coverage.coverage_achieved, Times100(coverage.coverage_achieved)}
    ELSE {}

(***************************************************************************)
(* State machine                                                           *)
(***************************************************************************)
Init ==
    /\ text \in Texts
    /\ morph \in Providers
    /\ anPc = "init"
    /\ exclude_stopwords = TRUE
    /\ use_lemmas = TRUE
    /\ word_frequencies = <<>>
    /\ target_words = 100
    /\ coverage = NoCoverage
    /\ swPc = "init"
    /\ word_counts = <<>>
    /\ target_percentage = Zero
    /\ cumulative_freq = <<>>
    /\ result = <<>>

\* RussianTextAnalyzer.get_word_frequency(text, exclude_stopwords, use_lemmas)
GetWordFrequency(ex, ul) ==
    /\ anPc = "init"
    /\ exclude_stopwords' = ex
    /\ use_lemmas' = ul
    /\ word_frequencies' = get_word_frequency(text, ex, ul)
    /\ anPc' = "freq"
    /\ UNCHANGED <<text, morph, target_words, coverage>>
    /\ UNCHANGED swVars

\* RussianTextAnalyzer.calculate_coverage(word_frequencies, target_words):
\* the division by total_words raises ZeroDivisionError when it is 0
CalculateCoverage(tw) ==
    /\ anPc = "freq"
    /\ target_words' = tw
    /\ IF SumCounts(word_frequencies) = 0
       THEN /\ anPc' = "raised"
            /\ UNCHANGED coverage
       ELSE /\ anPc' = "covered"
            /\ coverage' = calculate_coverage(word_frequencies, tw)
    /\ UNCHANGED <<text, morph, exclude_stopwords, use_lemmas, word_frequencies>>
    /\ UNCHANGED swVars

\* main(): words = process_text(text); word_counts = Counter(words)
CountWords ==
    /\ swPc = "init"
    /\ word_counts' = Counter(process_text(text))
    /\ swPc' = "counted"
    /\ UNCHANGED <<text, morph, target_percentage, cumulative_freq, result>>
    /\ UNCHANGED anVars

\* get_words_up_to_percentage(word_counts, target_percentage)
GetWordsUpToPercentage(target) ==
    /\ swPc = "counted"
    /\ target_percentage' = target
    /\ cumulative_freq' = get_cumulative_frequencies(word_counts, SumCounts(word_counts))
    /\ result' = get_words_up_to_percentage(word_counts, target)
    /\ swPc' = "done"
    /\ UNCHANGED <<text, morph, word_counts>>
    /\ UNCHANGED anVars

Next ==
    \/ \E ex \in BOOLEAN, ul \in BOOLEAN : GetWordFrequency(ex, ul)
    \/ \E tw \in TargetCounts : CalculateCoverage(tw)
    \/ CountWords
    \/ \E target \in TargetPercentages \cup CrossTargets :
           GetWordsUpToPercentage(target)

Spec == Init /\ [][Next]_vars

(***************************************************************************)
(* Vocabulary of the properties                                            *)
(***************************************************************************)
\* sum of the counts of the first i entries of a ranking
PrefixSum(ranked, i) == SumCounts(SubSeq(ranked, 1, i))

\* position at which key k first occurs in a stream that contains it
FirstSeen(stream, k) ==
    CHOOSE i \in 1..Len(stream) :
        /\ stream[i] = k
        /\ \A j \in 1..(i - 1) : stream[j] # k

\* count descending, equal counts in first-seen order of the stream
RankedFirstSeen(pairs, stream) ==
    \A i, j \in 1..Len(pairs) :
        i < j =>
            \/ pairs[i][2] > pairs[j][2]
            \/ /\ pairs[i][2] = pairs[j][2]
               /\ FirstSeen(stream, pairs[i][1]) < FirstSeen(stream, pairs[j][1])

KeysOf(pairs) == {pairs[i][1] : i \in 1..Len(pairs)}

Range(stream) == {stream[i] : i \in 1..Len(stream)}

\* the analyzer's tokens, and what the last get_word_frequency call did to them
Tokens == get_words(text)

DroppedOnSurface(w) == exclude_stopwords /\ w \in stopwords

KeptOnSurface(w) == ~DroppedOnSurface(w)

Canonical(w) == IF use_lemmas THEN morph[w] ELSE w

DroppedOnKey(w) == exclude_stopwords /\ Canonical(w) \in stopwords

\* the stream of canonical keys the analyzer counts
KeyStream ==
    LET kept == SelectSeq(Tokens, KeptOnSurface)
    IN  [i \in 1..Len(kept) |-> Canonical(kept[i])]

\* the ranking Mode A walks, with its counts
RankedCounts == sorted_by_count_desc(word_counts)

\* both modes were run on one and the same ranking
SameRanking == RankedCounts = word_frequencies

PositiveTarget ==
    /\ Less(Zero, target_percentage)
    /\ Geq(Hundred, target_percentage)

Curve == coverage.cumulative_frequencies

(***************************************************************************)
(* C1: Mode A, for a non-empty table and 0 < target <= 100, returns the    *)
(* shortest prefix of the ranking whose cumulative percentage reaches the  *)
(* target: the last returned entry is at or above the target, every        *)
(* earlier one is below it, and nothing after the stopping entry is        *)
(* returned.  The cumulative percentage of an entry is the float the       *)
(* report carries for it, (sum / total) * 100.                             *)
(***************************************************************************)
C1_ShortestPrefix ==
    (swPc = "done" /\ word_counts # <<>> /\ PositiveTarget) =>
        LET total  == SumCounts(word_counts)
            Pct(i) == Times100(Frac(PrefixSum(RankedCounts, i), total))
            n      == Len(result)
        IN  /\ n \in 1..Len(RankedCounts)
            /\ \A i \in 1..n :
                   result[i] = <<RankedCounts[i][1], RankedCounts[i][2], Pct(i)>>
            /\ Geq(Pct(n), target_percentage)
            /\ \A i \in 1..(n - 1) : Less(Pct(i), target_percentage)

\* the walk stopped after several entries and before the end of the ranking,
\* on the table a:29 b:20 ee:1 with target 58, where the first entry's
\* percentage (29 / 50) * 100 is rounded below 58 and the walk goes on
C1_Witness ==
    /\ swPc = "done"
    /\ PositiveTarget
    /\ target_percentage = Frac(58, 1)
    /\ RankedCounts = <<<<"a", 29>>, <<"b", 20>>, <<"ee", 1>>>>
    /\ Len(result) = 2
    /\ Less(result[1][3], target_percentage)

(***************************************************************************)
(* C2: with zero surviving tokens both coverage modes return an empty      *)
(* report with total occurrences 0, and neither ends in a division by      *)
(* zero.                                                                   *)
(***************************************************************************)
C2_EmptyInputEmptyReport ==
    /\ (swPc = "done" /\ word_counts = <<>>) => result = <<>>
    /\ (anPc \in {"covered", "raised"} /\ word_frequencies = <<>>) =>
           /\ anPc = "covered"
           /\ coverage.total_word_occurrences = 0
           /\ Curve = <<>>

(***************************************************************************)
(* C3: every ranking is ordered by count descending, and keys with equal   *)
(* counts appear in the order in which they were first seen in the token   *)
(* stream: for sorted() in get_cumulative_frequencies and for              *)
(* Counter.most_common() in get_word_frequency.                            *)
(***************************************************************************)
C3_RankingFirstSeen ==
    /\ anPc # "init" =>
           /\ KeysOf(word_frequencies) = Range(KeyStream)
           /\ RankedFirstSeen(word_frequencies, KeyStream)
    /\ swPc = "done" =>
           /\ KeysOf(cumulative_freq) = Range(process_text(text))
           /\ RankedFirstSeen(
                  [i \in 1..Len(cumulative_freq) |->
                      <<cumulative_freq[i][1],
                        CountOf(word_counts, cumulative_freq[i][1])>>],
                  process_text(text))

\* both rankings hold a tie that first-seen order and alphabetical order
\* would break differently
C3_Witness ==
    /\ anPc # "init"
    /\ swPc = "done"
    /\ \E i \in 1..Len(word_frequencies) : \E j \in 1..Len(word_frequencies) :
           /\ i < j
           /\ word_frequencies[i] = <<"b", 1>>
           /\ word_frequencies[j] = <<"a", 1>>
    /\ \E i \in 1..Len(cumulative_freq) : \E j \in 1..Len(cumulative_freq) :
           /\ i < j
           /\ cumulative_freq[i][1] = "b"
           /\ cumulative_freq[j][1] = "a"
           /\ CountOf(word_counts, "a") = CountOf(word_counts, "b")

(***************************************************************************)
(* C4: Mode B, for every frequency list and target_count > 0, reports a    *)
(* curve of exactly min(target_count, distinct keys) points, one per rank  *)
(* position, computed over the top entries in rank order.                  *)
(***************************************************************************)
C4_CurveLength ==
    (anPc \in {"covered", "raised"} /\ target_words > 0) =>
        /\ anPc = "covered"
        /\ Len(Curve) = Min(target_words, Len(word_frequencies))
        /\ \A i \in 1..Len(Curve) :
               Curve[i] = <<i, Frac(PrefixSum(word_frequencies, i),
                                    SumCounts(word_frequencies))>>

\* the same statement for the lists on which calculate_coverage returns
C4_CurveLengthWhenReturned ==
    (anPc = "covered" /\ target_words > 0) =>
        /\ Len(Curve) = Min(target_words, Len(word_frequencies))
        /\ \A i \in 1..Len(Curve) :
               Curve[i] = <<i, Frac(PrefixSum(word_frequencies, i),
                                    SumCounts(word_frequencies))>>

(***************************************************************************)
(* C5: stopword exclusion is decided on the final canonical key (the       *)
(* lowercased and, when enabled, lemmatized form), so with both flags on   *)
(* no key of the frequency table is a stopword.                            *)
(***************************************************************************)
C5_DroppedOnCanonicalKey ==
    anPc # "init" =>
        /\ \A k \in Words :
               CountOf(word_frequencies, k) =
                   Cardinality({i \in 1..Len(Tokens) :
                       ~DroppedOnKey(Tokens[i]) /\ Canonical(Tokens[i]) = k})
        /\ (exclude_stopwords /\ use_lemmas) =>
               KeysOf(word_frequencies) \cap stopwords = {}

\* C5 as amended: exclusion is decided on the lowercased surface token,
\* before lemmatization; a token is dropped exactly when exclude_stopwords
\* is on and its surface form is a stopword, and each kept token counts
\* under its canonical key
C5_DroppedOnSurfaceForm ==
    anPc # "init" =>
        \A k \in Words :
            CountOf(word_frequencies, k) =
                Cardinality({i \in 1..Len(Tokens) :
                    ~DroppedOnSurface(Tokens[i]) /\ Canonical(Tokens[i]) = k})

\* both flags on: a token was dropped for its surface form, and a token that
\* is no stopword was counted under a lemma that is one
C5_Witness ==
    /\ anPc # "init"
    /\ exclude_stopwords
    /\ use_lemmas
    /\ \E i \in 1..Len(Tokens) : Tokens[i] \in stopwords
    /\ \E i \in 1..Len(Tokens) :
           /\ Tokens[i] \notin stopwords
           /\ morph[Tokens[i]] \in stopwords
           /\ CountOf(word_frequencies, morph[Tokens[i]]) > 0

(***************************************************************************)
(* C6: Mode A with target_pct <= 0 returns an empty report, not a report   *)
(* holding the top-ranked entry.                                           *)
(***************************************************************************)
C6_NonPositiveTargetEmpty ==
    (swPc = "done" /\ Geq(Zero, target_percentage)) => result = <<>>

(***************************************************************************)
(* C7: Mode B on a non-empty list with target_count <= 0 returns an empty  *)
(* report: no curve points and an overall coverage of 0.                   *)
(***************************************************************************)
C7_NonPositiveCountEmpty ==
    (anPc = "covered" /\ word_frequencies # <<>> /\ target_words <= 0) =>
        /\ Curve = <<>>
        /\ coverage.coverage_achieved = Zero

(***************************************************************************)
(* C8: for every token stream and flag setting, the sum of the counts of   *)
(* the frequency table, which is the denominator of the coverage, equals   *)
(* the number of tokens not discarded as stopwords; every excluded         *)
(* occurrence lowers the total by exactly one.                             *)
(***************************************************************************)
C8_SumIsSurvivingTokens ==
    LET discarded == Cardinality({i \in 1..Len(Tokens) : DroppedOnSurface(Tokens[i])})
    IN  /\ anPc # "init" =>
               SumCounts(word_frequencies) = Len(Tokens) - discarded
        /\ anPc = "covered" =>
               coverage.total_word_occurrences = Len(Tokens) - discarded

\* a stopword occurrence was excluded from a table with a repeated key
C8_Witness ==
    /\ anPc = "covered"
    /\ exclude_stopwords
    /\ \E i \in 1..Len(Tokens) : Tokens[i] \in stopwords
    /\ \E i \in 1..Len(word_frequencies) : word_frequencies[i][2] >= 2
    /\ coverage.total_word_occurrences < Len(Tokens)

(***************************************************************************)
(* C9: in both modes the value reported at rank i is (sum of the counts    *)
(* of the top i entries) / (total occurrences) x 100, on the 0-100 scale,  *)
(* non-decreasing in i, and exactly 100 at the last entry when the whole   *)
(* ranking is included.                                                    *)
(***************************************************************************)
ModeAValues ==
    swPc = "done" =>
        /\ \A i \in 1..Len(result) :
               result[i][3] =
                   Times100(Frac(PrefixSum(RankedCounts, i), SumCounts(word_counts)))
        /\ \A i, j \in 1..Len(result) :
               i < j => Geq(result[j][3], result[i][3])
        /\ (result # <<>> /\ Len(result) = Len(word_counts)) =>
               result[Len(result)][3] = Hundred

C9_BothModesPercent ==
    /\ ModeAValues
    /\ anPc = "covered" =>
           /\ \A i \in 1..Len(Curve) :
                  Curve[i][2] = Times100(Frac(PrefixSum(word_frequencies, i),
                                              SumCounts(word_frequencies)))
           /\ \A i, j \in 1..Len(Curve) :
                  i < j => Geq(Curve[j][2], Curve[i][2])
           /\ (Curve # <<>> /\ Len(Curve) = Len(word_frequencies)) =>
                  Curve[Len(Curve)][2] = Hundred

\* C9 as amended: Mode A reports sum / total x 100 (0-100 scale); Mode B
\* reports the fraction sum / total (0-1 scale); each sequence is
\* non-decreasing and ends at 100, respectively 1, when the whole ranking
\* is included
C9_PercentAndFraction ==
    /\ ModeAValues
    /\ anPc = "covered" =>
           /\ \A i \in 1..Len(Curve) :
                  Curve[i][2] = Frac(PrefixSum(word_frequencies, i),
                                     SumCounts(word_frequencies))
           /\ \A i, j \in 1..Len(Curve) :
                  i < j => Geq(Curve[j][2], Curve[i][2])
           /\ (Curve # <<>> /\ Len(Curve) = Len(word_frequencies)) =>
                  Curve[Len(Curve)][2] = One

\* both modes reported a whole ranking of several entries
C9_Witness ==
    /\ swPc = "done"
    /\ anPc = "covered"
    /\ Len(result) >= 2
    /\ Len(result) = Len(word_counts)
    /\ Len(Curve) >= 2
    /\ Len(Curve) = Len(word_frequencies)

(***************************************************************************)
(* C10: for a non-empty table and 1 <= k <= distinct keys, the final       *)
(* figure p that Mode B reports for target_count = k is the final          *)
(* cumulative percentage Mode A reports when given target_pct = p on the   *)
(* same ranking, and Mode A returns the same k top entries.                *)
(***************************************************************************)
CrossModeCase ==
    /\ anPc = "covered"
    /\ swPc = "done"
    /\ SameRanking
    /\ target_words \in 1..Len(word_frequencies)

SameTopEntries ==
    /\ Len(result) = target_words
    /\ \A i \in 1..Len(result) :
           /\ result[i][1] = word_frequencies[i][1]
           /\ result[i][2] = word_frequencies[i][2]

C10_CrossModeSameValue ==
    (CrossModeCase /\ target_percentage = coverage.coverage_achieved) =>
        /\ coverage.coverage_achieved = Curve[target_words][2]
        /\ SameTopEntries
        /\ result[Len(result)][3] = coverage.coverage_achieved

\* C10 as amended: Mode B's figure p is a fraction; given target_pct =
\* 100 x p Mode A returns the same k top entries and its final cumulative
\* percentage is 100 x p
C10_CrossModeScaled ==
    (CrossModeCase /\ target_percentage = Times100(coverage.coverage_achieved)) =>
        /\ coverage.coverage_achieved = Curve[target_words][2]
        /\ SameTopEntries
        /\ result[Len(result)][3] = Times100(coverage.coverage_achieved)

\* Mode A was given 100 x p for a k strictly inside the ranking
C10_Witness ==
    /\ CrossModeCase
    /\ target_percentage = Times100(coverage.coverage_achieved)
    /\ target_words >= 2
    /\ target_words < Len(word_frequencies)
    /\ Len(result) = target_words

====
